---- MODULE Spec2Model ----
(***************************************************************************)
(* A model of the workspace/GitHub synchronisation backend.                *)
(*                                                                         *)
(*   - the line diff renderer (DB_diff_apis): the /diff endpoint, its      *)
(*     request validation, create_diff_html's walk over the edit script,   *)
(*     escape_html;                                                        *)
(*   - the push endpoint (DB_github_apis.github_push_to_repo) with the     *)
(*     helpers of DB_shared_models it calls, against a model of the        *)
(*     remote repository host;                                             *)
(*   - the repository listing (github_get_repo_files), the token endpoints *)
(*     (github_authenticate, github_save_token, github_get_saved_token)    *)
(*     with the secret store, and branch creation (DB_branch_apis).        *)
(*                                                                         *)
(* Texts are sequences of one-character strings.  A line record stands for *)
(* the five/six markup strings the renderer appends for one fragment.      *)
(***************************************************************************)
EXTENDS Integers, Sequences, FiniteSets, TLC

VARIABLES
    \* ---- diff renderer, one slot per calling context
    body,               \* the DiffRequest as received
    pc,                 \* position of each call
    text1, text2,       \* create_diff_html's arguments
    diffs,              \* the edit script (after diff_cleanupSemantic)
    op_pos, line_pos,   \* the two loop positions (1-based)
    html_lines,         \* records appended so far
    line_number_left,
    line_number_right,
    response,           \* what the endpoint answered
    \* ---- push endpoint and the remote host
    push,               \* github_push_to_repo's locals, one slot per running push
    remote,             \* the repository on the remote host
    requests,           \* the remote requests each push has issued, with their status
    \* ---- the other endpoints
    listing,            \* github_get_repo_files: one call, its locals and requests
    tokens,             \* the secret store and the token endpoints' calls
    branch              \* branch_create_branch: one call, its locals and requests

render_vars == <<body, pc, text1, text2, diffs, op_pos, line_pos, html_lines,
                 line_number_left, line_number_right, response>>
vars == <<body, pc, text1, text2, diffs, op_pos, line_pos, html_lines,
          line_number_left, line_number_right, response, push, remote, requests,
          listing, tokens, branch>>
push_vars == <<push, remote, requests>>
api_vars == <<listing, tokens, branch>>

-----------------------------------------------------------------------------
(* Bounds *)

MaxLen == 4         \* longest text of a diff request (Spec)
MaxEscLen == 4      \* longest text of a diff request (SpecEsc)
MaxCallLen == 1     \* longest text of a diff request (SpecCalls)

NL == "\n"
Alphabet == {"a", NL}
EscAlphabet == {"&", "<", ">", "l", "t", ";"}
CallAlphabet == {"a", NL}

Calls == {1, 2}

TextsUpTo(A, n) == UNION {[1..m -> A] : m \in 0..n}

Min(a, b) == IF a < b THEN a ELSE b

-----------------------------------------------------------------------------
(* Strings *)

\* text.endswith('\n')
EndsWithNL(text) == Len(text) > 0 /\ text[Len(text)] = NL

\* number of line-break characters of a text
CountNL(text) == Cardinality({j \in 1..Len(text) : text[j] = NL})

\* text.split('\n'): the fragments between the line breaks, always at least one
RECURSIVE split(_)
split(text) ==
    IF \A j \in 1..Len(text) : text[j] # NL
    THEN <<text>>
    ELSE LET j == CHOOSE j \in 1..Len(text) :
                      text[j] = NL /\ \A h \in 1..(j - 1) : text[h] # NL
         IN  <<SubSeq(text, 1, j - 1)>> \o split(SubSeq(text, j + 1, Len(text)))

\* text.replace(ch, rep), rep a sequence of characters
RECURSIVE replace(_, _, _)
replace(text, ch, rep) ==
    IF text = <<>> THEN <<>>
    ELSE (IF Head(text) = ch THEN rep ELSE <<Head(text)>>)
         \o replace(Tail(text), ch, rep)

amp == <<"&", "a", "m", "p", ";">>
lt == <<"&", "l", "t", ";">>
gt == <<"&", "g", "t", ";">>

\* the three replacements the other way round: '&' escaped last
escape_html_amp_last(text) ==
    replace(replace(replace(text, "<", lt), ">", gt), "&", amp)

escape_html(text) ==
    replace(replace(replace(text, "&", amp), "<", lt), ">", gt)

-----------------------------------------------------------------------------
(* The edit script of diff_main followed by diff_cleanupSemantic.  The diff *)
(* library is an external collaborator.  Its shortcuts are modelled as it  *)
(* takes them: equal texts, the common prefix and suffix, an empty middle  *)
(* on one side, a one-character middle.  Where it searches (bisection) or  *)
(* where the cleanup may move or remove equalities, the result is any      *)
(* script in the library's merged form (no empty payload, no two adjacent  *)
(* operations of one kind, a deletion before an insertion between          *)
(* equalities) whose deletions and equalities spell text1 and whose        *)
(* insertions and equalities spell text2.                                  *)

EQUAL == 0
DELETE == 0 - 1
INSERT == 1
START == INSERT + 1   \* no operation yet

Op(kind, payload) == [op |-> kind, text |-> payload]

RECURSIVE EditScripts(_, _, _)
EditScripts(t1, t2, last) ==
    IF t1 = <<>> /\ t2 = <<>> THEN {<<>>}
    ELSE LET eqs == IF last # EQUAL
                    THEN {n \in 1..Min(Len(t1), Len(t2)) :
                             SubSeq(t1, 1, n) = SubSeq(t2, 1, n)}
                    ELSE {}
             dels == IF last \in {EQUAL, START} THEN 1..Len(t1) ELSE {}
             inss == IF last \in {EQUAL, DELETE, START} THEN 1..Len(t2) ELSE {}
         IN  UNION ({ {<<Op(EQUAL, SubSeq(t1, 1, n))>> \o s :
                         s \in EditScripts(SubSeq(t1, n + 1, Len(t1)),
                                           SubSeq(t2, n + 1, Len(t2)), EQUAL)} :
                      n \in eqs }
               \cup { {<<Op(DELETE, SubSeq(t1, 1, n))>> \o s :
                         s \in EditScripts(SubSeq(t1, n + 1, Len(t1)), t2, DELETE)} :
                      n \in dels }
               \cup { {<<Op(INSERT, SubSeq(t2, 1, n))>> \o s :
                         s \in EditScripts(t1, SubSeq(t2, n + 1, Len(t2)), INSERT)} :
                      n \in inss })

\* diff_commonPrefix, diff_commonSuffix: the length of the common part
CommonPrefix(t1, t2) ==
    CHOOSE n \in 0..Min(Len(t1), Len(t2)) :
        /\ SubSeq(t1, 1, n) = SubSeq(t2, 1, n)
        /\ n < Min(Len(t1), Len(t2)) => t1[n + 1] # t2[n + 1]

Reverse(t) == [j \in 1..Len(t) |-> t[Len(t) + 1 - j]]

CommonSuffix(t1, t2) == CommonPrefix(Reverse(t1), Reverse(t2))

Contains(long, short) ==
    \E j \in 1..(Len(long) - Len(short) + 1) :
        SubSeq(long, j, j + Len(short) - 1) = short

Edits(s) == {j \in 1..Len(s) : s[j].op # EQUAL}

diff_main(t1, t2) ==
    IF t1 = t2 THEN (IF t1 = <<>> THEN {<<>>} ELSE {<<Op(EQUAL, t1)>>})
    ELSE
    LET n == CommonPrefix(t1, t2)
        a1 == SubSeq(t1, n + 1, Len(t1))
        a2 == SubSeq(t2, n + 1, Len(t2))
        m == CommonSuffix(a1, a2)
        mid1 == SubSeq(a1, 1, Len(a1) - m)
        mid2 == SubSeq(a2, 1, Len(a2) - m)
        Wrap(mid) == (IF n > 0 THEN <<Op(EQUAL, SubSeq(t1, 1, n))>> ELSE <<>>)
                     \o mid
                     \o (IF m > 0 THEN <<Op(EQUAL, SubSeq(a1, Len(a1) - m + 1, Len(a1)))>>
                         ELSE <<>>)
    IN  IF mid1 = <<>> \/ mid2 = <<>>
        THEN IF n > 0 /\ m > 0
             \* one edit between two equalities: the cleanup may slide it
             THEN {s \in EditScripts(t1, t2, START) : Cardinality(Edits(s)) = 1}
             ELSE {Wrap(<<IF mid1 = <<>> THEN Op(INSERT, mid2) ELSE Op(DELETE, mid1)>>)}
        ELSE IF Min(Len(mid1), Len(mid2)) = 1
                /\ ~Contains(mid1, mid2) /\ ~Contains(mid2, mid1)
        THEN {Wrap(<<Op(DELETE, mid1), Op(INSERT, mid2)>>)}
        ELSE EditScripts(t1, t2, START)

-----------------------------------------------------------------------------
(* Line records *)

NoNumber == 0       \* an empty line-number cell

Record(left, right, cls, line, k, i) ==
    [left |-> left, right |-> right, cls |-> cls, content |-> escape_html(line),
     op |-> k, frag |-> i]

\* the row of a deleted fragment: the number in the left cell, the right cell
\* empty; the mutant fills the wrong cell
DeletionRecord_swapped(l, line, k, i) ==
    Record(NoNumber, l, "diff-deletion", line, k, i)

DeletionRecord(l, line, k, i) ==
    Record(l, NoNumber, "diff-deletion", line, k, i)

\* "if i < len(lines) - 1 or text.endswith('\n')", i counted from 1 here
advance_always(i, lines, text) == TRUE

advance(i, lines, text) == i < Len(lines) \/ EndsWithNL(text)

\* the right counter after an Equal fragment; the mutant forgets it
right_after_equal_stuck(n, i, lines, text) == n

right_after_equal(n, i, lines, text) ==
    IF advance(i, lines, text) THEN n + 1 ELSE n

\* which slot holds a call's counters: its own stack frame, or one shared by
\* every call
frame_shared(p) == 1

frame(p) == p

-----------------------------------------------------------------------------
(* The /diff endpoint *)

Str(t) == [kind |-> "str", value |-> t]
Null == [kind |-> "null", value |-> <<>>]
Missing == [kind |-> "missing", value |-> <<>>]

Fields(T) == {Str(t) : t \in T} \cup {Null, Missing}

IdleRequest == [workspace_content |-> Str(<<>>), repo_content |-> Str(<<>>),
                filename |-> Str(<<"a">>)]

NoResponse == [status |-> 0, diff_html |-> <<>>]

\* DiffRequest: three required fields of type str
DiffRequest(b) ==
    /\ b.workspace_content.kind = "str"
    /\ b.repo_content.kind = "str"
    /\ b.filename.kind = "str"

\* request validation rejects the body before the handler runs
Reject(p) ==
    /\ pc[p] = "request"
    /\ ~DiffRequest(body[p])
    /\ response' = [response EXCEPT ![p] = [status |-> 422, diff_html |-> <<>>]]
    /\ pc' = [pc EXCEPT ![p] = "done"]
    /\ UNCHANGED <<body, text1, text2, diffs, op_pos, line_pos, html_lines,
                   line_number_left, line_number_right, push_vars, api_vars>>

\* diff_get_diff up to the call of create_diff_html(repo_content, workspace_content)
diff_get_diff(p) ==
    /\ pc[p] = "request"
    /\ DiffRequest(body[p])
    /\ LET repo_content == IF body[p].repo_content.kind # "null"
                           THEN body[p].repo_content.value ELSE <<>>
           workspace_content == IF body[p].workspace_content.kind # "null"
                                THEN body[p].workspace_content.value ELSE <<>>
       IN  /\ text1' = [text1 EXCEPT ![p] = repo_content]
           /\ text2' = [text2 EXCEPT ![p] = workspace_content]
    /\ pc' = [pc EXCEPT ![p] = "diff"]
    /\ UNCHANGED <<body, diffs, op_pos, line_pos, html_lines,
                   line_number_left, line_number_right, response, push_vars, api_vars>>

\* create_diff_html up to the loop: the edit script, the empty list, the counters
create_diff_html(p) ==
    /\ pc[p] = "diff"
    /\ \E d \in diff_main(text1[p], text2[p]) :
           diffs' = [diffs EXCEPT ![p] = d]
    /\ html_lines' = [html_lines EXCEPT ![p] = <<>>]
    /\ line_number_left' = [line_number_left EXCEPT ![frame(p)] = 1]
    /\ line_number_right' = [line_number_right EXCEPT ![frame(p)] = 1]
    /\ op_pos' = [op_pos EXCEPT ![p] = 1]
    /\ line_pos' = [line_pos EXCEPT ![p] = 1]
    /\ pc' = [pc EXCEPT ![p] = "loop"]
    /\ UNCHANGED <<body, text1, text2, response, push_vars, api_vars>>

InLoop(p) == pc[p] = "loop" /\ op_pos[p] <= Len(diffs[p])

\* the two for statements: next fragment, or first fragment of the next operation
Step(p, lines) ==
    IF line_pos[p] < Len(lines)
    THEN /\ line_pos' = [line_pos EXCEPT ![p] = line_pos[p] + 1]
         /\ UNCHANGED op_pos
    ELSE /\ line_pos' = [line_pos EXCEPT ![p] = 1]
         /\ op_pos' = [op_pos EXCEPT ![p] = op_pos[p] + 1]

\* one pass of the inner loop, op == 0
EmitEqual(p) ==
    /\ InLoop(p)
    /\ diffs[p][op_pos[p]].op = EQUAL
    /\ LET text == diffs[p][op_pos[p]].text
           lines == split(text)
           i == line_pos[p]
           l == line_number_left[frame(p)]
           r == line_number_right[frame(p)]
       IN  /\ html_lines' = [html_lines EXCEPT ![p] =
                  Append(@, Record(l, r, "diff-equal", lines[i], op_pos[p], i))]
           /\ line_number_left' = [line_number_left EXCEPT ![frame(p)] =
                  IF advance(i, lines, text) THEN l + 1 ELSE l]
           /\ line_number_right' = [line_number_right EXCEPT ![frame(p)] =
                  right_after_equal(r, i, lines, text)]
           /\ Step(p, lines)
    /\ UNCHANGED <<body, pc, text1, text2, diffs, response, push_vars, api_vars>>

\* one pass of the inner loop, op == -1
EmitDeletion(p) ==
    /\ InLoop(p)
    /\ diffs[p][op_pos[p]].op = DELETE
    /\ LET text == diffs[p][op_pos[p]].text
           lines == split(text)
           i == line_pos[p]
           l == line_number_left[frame(p)]
       IN  /\ html_lines' = [html_lines EXCEPT ![p] =
                  Append(@, DeletionRecord(l, lines[i], op_pos[p], i))]
           /\ line_number_left' = [line_number_left EXCEPT ![frame(p)] =
                  IF advance(i, lines, text) THEN l + 1 ELSE l]
           /\ Step(p, lines)
    /\ UNCHANGED <<body, pc, text1, text2, diffs, line_number_right, response, push_vars, api_vars>>

\* one pass of the inner loop, any other op
EmitAddition(p) ==
    /\ InLoop(p)
    /\ diffs[p][op_pos[p]].op \notin {EQUAL, DELETE}
    /\ LET text == diffs[p][op_pos[p]].text
           lines == split(text)
           i == line_pos[p]
           r == line_number_right[frame(p)]
       IN  /\ html_lines' = [html_lines EXCEPT ![p] =
                  Append(@, Record(NoNumber, r, "diff-addition", lines[i], op_pos[p], i))]
           /\ line_number_right' = [line_number_right EXCEPT ![frame(p)] =
                  IF advance(i, lines, text) THEN r + 1 ELSE r]
           /\ Step(p, lines)
    /\ UNCHANGED <<body, pc, text1, text2, diffs, line_number_left, response, push_vars, api_vars>>

\* create_diff_html returns; diff_get_diff wraps the markup in a DiffResponse
Return(p) ==
    /\ pc[p] = "loop"
    /\ op_pos[p] > Len(diffs[p])
    /\ response' = [response EXCEPT ![p] = [status |-> 200, diff_html |-> html_lines[p]]]
    /\ pc' = [pc EXCEPT ![p] = "done"]
    /\ UNCHANGED <<body, text1, text2, diffs, op_pos, line_pos, html_lines,
                   line_number_left, line_number_right, push_vars, api_vars>>

-----------------------------------------------------------------------------
(* The remote repository host, as the push endpoint uses it.  Object ids    *)
(* (the host's SHAs) are positions in the host's lists; 0 is no object.     *)

MaxFiles == 2       \* most files of one push request

Pushers == {1, 2}
FileNames == {<<"a">>, <<"/", "a">>, <<"b">>}
README == <<"README.md">>

FileLists == UNION {[1..m -> FileNames] : m \in 0..MaxFiles}

\* file_path.lstrip('/')
RECURSIVE lstrip(_)
lstrip(path) ==
    IF path # <<>> /\ Head(path) = "/" THEN lstrip(Tail(path)) ELSE path

\* an answer of the host: its status and whether its body carries a "message";
\* status 0 stands for no answer at all (requests raises a RequestException)
Answer(status, message) == [status |-> status, message |-> message]
Failures == {Answer(500, TRUE), Answer(500, FALSE), Answer(0, FALSE)}

\* response.json().get('message', 'Unknown error')
Message(resp) == IF resp.message THEN "remote message" ELSE "Unknown error"

Entry(path, sha) == [path |-> path, sha |-> sha]

\* the entries of a tree made of `entries` over the tree of commit `base`
TreeOver(base, entries) ==
    LET new == {entries[j] : j \in 1..Len(entries)}
        old == IF base = 0 THEN {} ELSE remote.commits[base].tree
    IN  {e \in old : \A n \in new : n.path # e.path} \cup new

EmptyRemote == [size_zero |-> TRUE, ref |-> 0, commits |-> <<>>, blobs |-> 0, trees |-> <<>>]

\* a repository with one commit holding README.md, the branch on it or not
\* (the commit is then the head of another branch)
OneCommit(on_branch) ==
    [size_zero |-> FALSE, ref |-> IF on_branch THEN 1 ELSE 0,
     commits |-> <<[tree |-> {Entry(README, 1)}, parents |-> <<>>]>>,
     blobs |-> 1, trees |-> <<{Entry(README, 1)}>>]

-----------------------------------------------------------------------------
(* The /push endpoint *)

PushResponse(success, message) ==
    [kind |-> "PushResponse", success |-> success, message |-> message]
HTTPException(status_code, detail) ==
    [kind |-> "HTTPException", status_code |-> status_code, detail |-> detail]
RequestException == [kind |-> "RequestException", status_code |-> 0, detail |-> "str(error)"]
NoResult == [kind |-> "none"]

\* handle_github_error: a transport error keeps its text, anything else becomes
\* the default message, both with status 400
handle_github_error(error, default_message) ==
    IF error.kind = "RequestException"
    THEN HTTPException(400, error.detail)
    ELSE HTTPException(400, default_message)

\* the locals of one call; head_before is not a local of the code: it records the
\* branch head at the time of the call, for the properties to compare with
IdlePush == [pc |-> "off", files |-> <<>>, is_empty_repo |-> FALSE, branch_sha |-> 0,
             base_tree |-> 0, new_tree |-> <<>>, file_pos |-> 1, tree_sha |-> 0,
             commit_sha |-> 0, result |-> NoResult, head_before |-> 0]

PushOff ==
    /\ push = [q \in Pushers |-> IdlePush]
    /\ remote = EmptyRemote
    /\ requests = [q \in Pushers |-> <<>>]

Sent(q, req, resp) ==
    requests' = [requests EXCEPT ![q] = Append(@, [req |-> req, status |-> resp.status])]

\* "except Exception as e: handle_github_error(e, ...)" around the whole handler
Raise(q, error) ==
    push' = [push EXCEPT ![q].pc = "done",
                         ![q].result = handle_github_error(
                             error, "Failed to push files to repository")]

\* "return PushResponse(success=False, message=...)"
Fail(q, what, resp) ==
    push' = [push EXCEPT ![q].pc = "done",
                         ![q].result = PushResponse(FALSE, <<what, Message(resp)>>)]

\* validate_repo_access, called first
validate_repo_access(q) ==
    /\ push[q].pc = "validate_repo_access"
    /\ \E resp \in {Answer(200, FALSE), Answer(404, TRUE)} \cup Failures :
           /\ Sent(q, "GET repo (validate)", resp)
           /\ IF resp.status = 0 THEN Raise(q, RequestException)
              ELSE IF resp.status = 404
              THEN Raise(q, HTTPException(404, "Repository not found"))
              ELSE IF resp.status # 200
              THEN Raise(q, HTTPException(400, <<"Failed to access repository", Message(resp)>>))
              ELSE push' = [push EXCEPT ![q].pc = "get_repo"]
    /\ UNCHANGED <<render_vars, api_vars, remote>>

\* "Get repository details": the same GET again, is_empty_repo from its size
GetRepository(q) ==
    /\ push[q].pc = "get_repo"
    /\ \E resp \in {Answer(200, FALSE)} \cup Failures :
           /\ Sent(q, "GET repo", resp)
           /\ IF resp.status = 0 THEN Raise(q, RequestException)
              ELSE IF resp.status # 200 THEN Fail(q, "Failed to access repository", resp)
              ELSE push' = [push EXCEPT
                               ![q].is_empty_repo = remote.size_zero,
                               ![q].pc = IF remote.size_zero THEN "readme" ELSE "branches"]
    /\ UNCHANGED <<render_vars, api_vars, remote>>

\* the host's side of "PUT contents/README.md" with a branch: a commit with the
\* file added, on top of the branch head if there is one, and the branch on it
WithReadme ==
    LET blob == remote.blobs + 1
        tree == TreeOver(remote.ref, <<Entry(README, blob)>>)
        commit == [tree |-> tree,
                   parents |-> IF remote.ref = 0 THEN <<>> ELSE <<remote.ref>>]
    IN  [remote EXCEPT !.blobs = blob,
                       !.trees = Append(@, tree),
                       !.commits = Append(@, commit),
                       !.ref = Len(remote.commits) + 1,
                       !.size_zero = FALSE]

\* "For empty repositories, create initial README.md using contents API"
CreateReadme(q) ==
    /\ push[q].pc = "readme"
    /\ \E resp \in {Answer(201, FALSE)} \cup Failures :
           /\ Sent(q, "PUT contents/README.md", resp)
           /\ IF resp.status = 0 THEN Raise(q, RequestException) /\ UNCHANGED remote
              ELSE IF resp.status # 201
              THEN Fail(q, "Failed to create README", resp) /\ UNCHANGED remote
              ELSE /\ remote' = WithReadme
                   /\ push' = [push EXCEPT ![q].pc = "branches"]
    /\ UNCHANGED <<render_vars, api_vars>>

\* "if is_empty_repo or not branch_sha": the initial-branch block, else the
\* existing-branch block
AfterBranchCheck(q, sha) ==
    push' = [push EXCEPT
                ![q].branch_sha = sha,
                ![q].pc = IF push[q].is_empty_repo \/ sha = 0
                          THEN "initial_blobs" ELSE "get_tree"]

\* validate_branch_exists, first request: the list of branches.  Any status but
\* 200, and a list without the branch, give "" (0 here).
validate_branch_exists(q) ==
    /\ push[q].pc = "branches"
    /\ \E resp \in {Answer(200, FALSE)} \cup Failures :
           /\ Sent(q, "GET branches", resp)
           /\ IF resp.status = 0 THEN Raise(q, RequestException)
              ELSE IF resp.status = 200 /\ remote.ref # 0
              THEN push' = [push EXCEPT ![q].pc = "get_ref"]
              ELSE AfterBranchCheck(q, 0)
    /\ UNCHANGED <<render_vars, api_vars, remote>>

\* validate_branch_exists, second request: the branch's ref.  Any status but 200
\* gives "".
GetBranchRef(q) ==
    /\ push[q].pc = "get_ref"
    /\ \E resp \in (IF remote.ref # 0 THEN {Answer(200, FALSE)} ELSE {}) \cup Failures :
           /\ Sent(q, "GET git/refs/heads", resp)
           /\ IF resp.status = 0 THEN Raise(q, RequestException)
              ELSE IF resp.status = 200 THEN AfterBranchCheck(q, remote.ref)
              ELSE AfterBranchCheck(q, 0)
    /\ UNCHANGED <<render_vars, api_vars, remote>>

\* "For existing branches, get the current tree": base_tree stays None on any
\* status but 200
GetBaseTree(q) ==
    /\ push[q].pc = "get_tree"
    /\ \E resp \in {Answer(200, FALSE)} \cup Failures :
           /\ Sent(q, "GET git/trees", resp)
           /\ IF resp.status = 0 THEN Raise(q, RequestException)
              ELSE push' = [push EXCEPT
                               ![q].base_tree = IF resp.status = 200
                                                THEN push[q].branch_sha ELSE 0,
                               ![q].pc = "blobs"]
    /\ UNCHANGED <<render_vars, api_vars, remote>>

\* process_file_for_github's error: the file could not be read, the blob request
\* failed in transport (caught inside) or its status is not 201
file_error_ignored(readable, resp) == FALSE

file_error(readable, resp) == ~readable \/ resp.status # 201

\* one pass of "for file_path in body.files" (both blocks have the same loop)
ProcessFile(q, initial) ==
    /\ push[q].pc = (IF initial THEN "initial_blobs" ELSE "blobs")
    /\ push[q].file_pos <= Len(push[q].files)
    /\ \E readable \in BOOLEAN :
       \E resp \in {Answer(201, FALSE)} \cup Failures :
           /\ ~readable => resp = Answer(0, FALSE)
           /\ IF readable THEN Sent(q, "POST git/blobs", resp) ELSE UNCHANGED requests
           /\ IF file_error(readable, resp)
              THEN /\ Fail(q, "Error processing file", resp)
                   /\ UNCHANGED remote
              ELSE /\ remote' = [remote EXCEPT !.blobs = @ + 1]
                   /\ push' = [push EXCEPT
                          ![q].new_tree = Append(@,
                              Entry(lstrip(push[q].files[push[q].file_pos]),
                                    remote.blobs + 1)),
                          ![q].file_pos = @ + 1]
    /\ UNCHANGED <<render_vars, api_vars>>

\* "Create tree": over base_tree if there is one
CreateTree(q, initial) ==
    /\ push[q].pc = (IF initial THEN "initial_blobs" ELSE "blobs")
    /\ push[q].file_pos > Len(push[q].files)
    /\ \E resp \in {Answer(201, FALSE)} \cup Failures :
           /\ Sent(q, "POST git/trees", resp)
           /\ IF resp.status = 0 THEN Raise(q, RequestException) /\ UNCHANGED remote
              ELSE IF resp.status # 201
              THEN Fail(q, "Failed to create tree", resp) /\ UNCHANGED remote
              ELSE /\ remote' = [remote EXCEPT !.trees =
                          Append(@, TreeOver(push[q].base_tree, push[q].new_tree))]
                   /\ push' = [push EXCEPT
                          ![q].tree_sha = Len(remote.trees) + 1,
                          ![q].pc = IF initial THEN "initial_commit" ELSE "commit"]
    /\ UNCHANGED <<render_vars, api_vars>>

\* "Create commit": "parents": [] in the initial-branch block,
\* [base_tree] if base_tree else [] in the other
CreateCommit(q, initial) ==
    /\ push[q].pc = (IF initial THEN "initial_commit" ELSE "commit")
    /\ \E resp \in {Answer(201, FALSE)} \cup Failures :
           /\ Sent(q, "POST git/commits", resp)
           /\ IF resp.status = 0 THEN Raise(q, RequestException) /\ UNCHANGED remote
              ELSE IF resp.status # 201
              THEN Fail(q, "Failed to create commit", resp) /\ UNCHANGED remote
              ELSE /\ remote' = [remote EXCEPT !.commits = Append(@,
                          [tree |-> remote.trees[push[q].tree_sha],
                           parents |-> IF ~initial /\ push[q].base_tree # 0
                                       THEN <<push[q].base_tree>> ELSE <<>>])]
                   /\ push' = [push EXCEPT
                          ![q].commit_sha = Len(remote.commits) + 1,
                          ![q].pc = IF initial THEN "initial_ref" ELSE "ref"]
    /\ UNCHANGED <<render_vars, api_vars>>

Success(q) ==
    push' = [push EXCEPT ![q].pc = "done",
                         ![q].result = PushResponse(TRUE, "Successfully pushed all files")]

\* the "sha" of a ref request: the branch's head as the call read it
ref_sha_stale(q) == push[q].branch_sha

\* the "sha" of a ref request: commit_response.json()["sha"]
ref_sha(q) == push[q].commit_sha

\* "Create new branch": POST git/refs; the host answers 201 only if the branch
\* does not exist
CreateRef(q) ==
    /\ push[q].pc = "initial_ref"
    /\ push[q].branch_sha = 0
    /\ \E resp \in (IF remote.ref = 0 THEN {Answer(201, FALSE)} ELSE {Answer(422, TRUE)})
                   \cup Failures :
           /\ Sent(q, "POST git/refs", resp)
           /\ IF resp.status = 0 THEN Raise(q, RequestException) /\ UNCHANGED remote
              ELSE IF resp.status # 201
              THEN Fail(q, "Failed to create branch", resp) /\ UNCHANGED remote
              ELSE /\ remote' = [remote EXCEPT !.ref = ref_sha(q)]
                   /\ Success(q)
    /\ UNCHANGED <<render_vars, api_vars>>

\* "Update existing branch": PATCH git/refs/heads/<branch> with force; the host
\* answers 200 only if the branch exists.  In the existing-branch block
\* branch_sha is never empty, so its "create" arm is never taken.
UpdateRef(q, initial) ==
    /\ push[q].pc = (IF initial THEN "initial_ref" ELSE "ref")
    /\ push[q].branch_sha # 0
    /\ \E resp \in (IF remote.ref # 0 THEN {Answer(200, FALSE)} ELSE {Answer(422, TRUE)})
                   \cup Failures :
           /\ Sent(q, "PATCH git/refs/heads", resp)
           /\ IF resp.status = 0 THEN Raise(q, RequestException) /\ UNCHANGED remote
              ELSE IF resp.status # 200
              THEN Fail(q, "Failed to update branch", resp) /\ UNCHANGED remote
              ELSE /\ remote' = [remote EXCEPT !.ref = ref_sha(q)]
                   /\ Success(q)
    /\ UNCHANGED <<render_vars, api_vars>>

github_push_to_repo(q) ==
    \/ validate_repo_access(q)
    \/ GetRepository(q)
    \/ CreateReadme(q)
    \/ validate_branch_exists(q)
    \/ GetBranchRef(q)
    \/ GetBaseTree(q)
    \/ ProcessFile(q, TRUE) \/ CreateTree(q, TRUE) \/ CreateCommit(q, TRUE)
    \/ CreateRef(q) \/ UpdateRef(q, TRUE)
    \/ ProcessFile(q, FALSE) \/ CreateTree(q, FALSE) \/ CreateCommit(q, FALSE)
    \/ UpdateRef(q, FALSE)

NextPush == \E q \in Pushers : github_push_to_repo(q)

-----------------------------------------------------------------------------
(* The /repo-files endpoint, against a repository of nested directories *)

MaxDepth == 1       \* deepest directory of the listed repository

\* items of the Contents API
File(dir, name) == [type |-> "file", path |-> Append(dir, name)]
Dir(path) == [type |-> "dir", path |-> path]

\* the host's list for a directory: a file, the next directory down if there is
\* one, another file
Contents(dir) ==
    <<File(dir, "a")>>
    \o (IF Len(dir) < MaxDepth THEN <<Dir(Append(dir, "d"))>> ELSE <<>>)
    \o <<File(dir, "b")>>

\* a 200 answer whose JSON is an object, not a list
NotAList == Answer(200, TRUE)

RepoFile(path, last_modified) == [path |-> path, last_modified |-> last_modified]
RepoFilesResponse(files) == [kind |-> "RepoFilesResponse", files |-> files]

\* the locals of the call; repo is the host's side: "empty" (size 0), "no branch"
\* or "files"; pending is what get_directory_contents has still to visit, in its
\* depth-first order
IdleListing == [pc |-> "off", valid |-> TRUE, repo |-> "files", pending |-> <<>>,
                all_files |-> <<>>, repo_files |-> <<>>, log |-> <<>>,
                result |-> NoResult]

ListingSent(req, resp) == Append(listing.log, [req |-> req, status |-> resp.status,
                                               list |-> resp = Answer(200, FALSE)])

\* "except Exception as e: handle_github_error(e, ...)" around the whole handler
ListingRaise(error, log) ==
    listing' = [listing EXCEPT !.pc = "done", !.log = log,
                               !.result = handle_github_error(
                                   error, "Failed to fetch repository files")]

ListingReturn(files, log) ==
    listing' = [listing EXCEPT !.pc = "done", !.log = log,
                               !.result = RepoFilesResponse(files)]

\* "Validate input"
ListingInput ==
    /\ listing.pc = "input"
    /\ IF ~listing.valid
       THEN ListingRaise(HTTPException(400, "Repository name, branch and token are required"),
                         listing.log)
       ELSE listing' = [listing EXCEPT !.pc = "validate_repo_access"]
    /\ UNCHANGED <<render_vars, push_vars, tokens, branch>>

ListingRepoAccess ==
    /\ listing.pc = "validate_repo_access"
    /\ \E resp \in {Answer(200, FALSE), Answer(404, TRUE)} \cup Failures :
           LET log == ListingSent("GET repo (validate)", resp)
           IN  IF resp.status = 0 THEN ListingRaise(RequestException, log)
               ELSE IF resp.status = 404
               THEN ListingRaise(HTTPException(404, "Repository not found"), log)
               ELSE IF resp.status # 200
               THEN ListingRaise(HTTPException(400, <<"Failed to access repository",
                                                      Message(resp)>>), log)
               ELSE listing' = [listing EXCEPT !.pc = "get_repo", !.log = log]
    /\ UNCHANGED <<render_vars, push_vars, tokens, branch>>

\* "Get repository details": the status is not looked at, a body without "size"
\* counts as size 0
ListingRepository ==
    /\ listing.pc = "get_repo"
    /\ \E resp \in {Answer(200, FALSE)} \cup Failures :
           LET log == ListingSent("GET repo", resp)
           IN  IF resp.status = 0 THEN ListingRaise(RequestException, log)
               ELSE IF resp.status # 200 \/ listing.repo = "empty"
               THEN ListingReturn(<<>>, log)
               ELSE listing' = [listing EXCEPT !.pc = "branches", !.log = log]
    /\ UNCHANGED <<render_vars, push_vars, tokens, branch>>

\* validate_branch_exists, first request; "if not branch_sha: return
\* RepoFilesResponse(files=[])"
ListingBranches ==
    /\ listing.pc = "branches"
    /\ \E resp \in {Answer(200, FALSE)} \cup Failures :
           LET log == ListingSent("GET branches", resp)
           IN  IF resp.status = 0 THEN ListingRaise(RequestException, log)
               ELSE IF resp.status = 200 /\ listing.repo = "files"
               THEN listing' = [listing EXCEPT !.pc = "get_ref", !.log = log]
               ELSE ListingReturn(<<>>, log)
    /\ UNCHANGED <<render_vars, push_vars, tokens, branch>>

\* validate_branch_exists, second request
ListingBranchRef ==
    /\ listing.pc = "get_ref"
    /\ \E resp \in {Answer(200, FALSE)} \cup Failures :
           LET log == ListingSent("GET git/refs/heads", resp)
           IN  IF resp.status = 0 THEN ListingRaise(RequestException, log)
               ELSE IF resp.status = 200
               THEN listing' = [listing EXCEPT !.pc = "contents", !.log = log,
                                               !.pending = <<Dir(<<>>)>>]
               ELSE ListingReturn(<<>>, log)
    /\ UNCHANGED <<render_vars, push_vars, tokens, branch>>

\* get_directory_contents(path): the request for one directory; [] on any status
\* but 200 and on a body that is not a list
get_directory_contents ==
    /\ listing.pc = "contents"
    /\ listing.pending # <<>>
    /\ Head(listing.pending).type = "dir"
    /\ \E resp \in {Answer(200, FALSE), NotAList} \cup Failures :
           LET log == ListingSent("GET contents", resp)
               path == Head(listing.pending).path
           IN  IF resp.status = 0 THEN ListingRaise(RequestException, log)
               ELSE listing' = [listing EXCEPT
                        !.log = log,
                        !.pending = (IF resp = Answer(200, FALSE)
                                     THEN Contents(path) ELSE <<>>)
                                    \o Tail(listing.pending)]
    /\ UNCHANGED <<render_vars, push_vars, tokens, branch>>

\* 'if item["type"] == "file": all_contents.append(item)'
FoundFile ==
    /\ listing.pc = "contents"
    /\ listing.pending # <<>>
    /\ Head(listing.pending).type = "file"
    /\ listing' = [listing EXCEPT !.all_files = Append(@, Head(listing.pending).path),
                                  !.pending = Tail(@)]
    /\ UNCHANGED <<render_vars, push_vars, tokens, branch>>

\* one pass of "for item in all_files": the file's last commit; last_modified
\* stays None on any status but 200
FileCommits ==
    /\ listing.pc = "contents"
    /\ listing.pending = <<>>
    /\ Len(listing.repo_files) < Len(listing.all_files)
    /\ \E resp \in {Answer(200, FALSE)} \cup Failures :
           LET log == ListingSent("GET commits", resp)
               path == listing.all_files[Len(listing.repo_files) + 1]
           IN  IF resp.status = 0 THEN ListingRaise(RequestException, log)
               ELSE listing' = [listing EXCEPT
                        !.log = log,
                        !.repo_files = Append(@, RepoFile(path,
                            IF resp.status = 200 THEN "date" ELSE "None"))]
    /\ UNCHANGED <<render_vars, push_vars, tokens, branch>>

\* "return RepoFilesResponse(files=repo_files)"
ListingDone ==
    /\ listing.pc = "contents"
    /\ listing.pending = <<>>
    /\ Len(listing.repo_files) = Len(listing.all_files)
    /\ ListingReturn(listing.repo_files, listing.log)
    /\ UNCHANGED <<render_vars, push_vars, tokens, branch>>

github_get_repo_files ==
    \/ ListingInput
    \/ ListingRepoAccess
    \/ ListingRepository
    \/ ListingBranches
    \/ ListingBranchRef
    \/ get_directory_contents
    \/ FoundFile
    \/ FileCommits
    \/ ListingDone

-----------------------------------------------------------------------------
(* The token endpoints and the secret store (db.secrets, key GITHUB_TOKEN) *)

MaxCalls == 3       \* most calls of the token endpoints in one run

Tokens == {"t1", "t2"}
NoToken == "None"

AuthResponse(success, username) ==
    [kind |-> "AuthResponse", success |-> success, username |-> username]
SaveTokenResponse(success) == [kind |-> "SaveTokenResponse", success |-> success]
TokenResponse(token) == [kind |-> "TokenResponse", token |-> token]

\* an exception of the secret store
StoreError == [kind |-> "Exception", status_code |-> 0, detail |-> "str(error)"]

\* the call at hand: its endpoint and token; status is the status of its user
\* check (-1 before it), before is the secret when the call arrived, read_failed
\* whether its read of the secret store raised.  secret is the stored token,
\* last_saved the token of the last save that returned success=True.
IdleCall == [endpoint |-> "none", token |-> NoToken, pc |-> "idle", status |-> -1,
             before |-> NoToken, read_failed |-> FALSE, result |-> NoResult]
TokensOff == [secret |-> NoToken, calls |-> 0, call |-> IdleCall, last_saved |-> NoToken]

\* a client calls one of the endpoints, one call at a time
Arrive ==
    /\ tokens.call.pc \in {"idle", "done"}
    /\ tokens.calls < MaxCalls
    /\ \E e \in {"auth", "save-token", "saved-token"} :
       \E t \in Tokens :
           /\ e = "saved-token" => t = "t1"
           /\ tokens' = [tokens EXCEPT
                  !.calls = @ + 1,
                  !.call = [IdleCall EXCEPT
                               !.endpoint = e,
                               !.token = IF e = "saved-token" THEN NoToken ELSE t,
                               !.pc = "running",
                               !.before = tokens.secret]]
    /\ UNCHANGED <<render_vars, push_vars, listing, branch>>

\* "if response.status_code != 200: raise HTTPException(401, ...)"
token_rejected_never(resp) == FALSE

token_rejected(resp) == resp.status # 200

Answered(resp, result) ==
    [tokens.call EXCEPT !.pc = "done", !.status = resp.status, !.result = result]

github_authenticate ==
    /\ tokens.call.endpoint = "auth" /\ tokens.call.pc = "running"
    /\ \E resp \in {Answer(200, FALSE), Answer(401, TRUE)} \cup Failures :
           tokens' = [tokens EXCEPT !.call = Answered(resp,
               IF resp.status = 0
               THEN handle_github_error(RequestException, "Authentication failed")
               ELSE IF token_rejected(resp)
               THEN handle_github_error(HTTPException(401, "Invalid token"),
                                        "Authentication failed")
               ELSE AuthResponse(TRUE, "login"))]
    /\ UNCHANGED <<render_vars, push_vars, listing, branch>>

\* the user check, then db.secrets.put, which may raise
github_save_token ==
    /\ tokens.call.endpoint = "save-token" /\ tokens.call.pc = "running"
    /\ \E resp \in {Answer(200, FALSE), Answer(401, TRUE)} \cup Failures :
       \E stored \in BOOLEAN :
           IF resp.status = 0
           THEN /\ stored
                /\ tokens' = [tokens EXCEPT !.call = Answered(resp,
                       handle_github_error(RequestException, "Failed to save token"))]
           ELSE IF token_rejected(resp)
           THEN /\ stored
                /\ tokens' = [tokens EXCEPT !.call = Answered(resp,
                       handle_github_error(HTTPException(401, "Invalid token"),
                                           "Failed to save token"))]
           ELSE IF ~stored
           THEN tokens' = [tokens EXCEPT !.call = Answered(resp,
                       handle_github_error(StoreError, "Failed to save token"))]
           ELSE tokens' = [tokens EXCEPT !.call = Answered(resp, SaveTokenResponse(TRUE)),
                                         !.secret = tokens.call.token,
                                         !.last_saved = tokens.call.token]
    /\ UNCHANGED <<render_vars, push_vars, listing, branch>>

\* db.secrets.get; token=None when it raises
github_get_saved_token ==
    /\ tokens.call.endpoint = "saved-token" /\ tokens.call.pc = "running"
    /\ \E readable \in BOOLEAN :
           tokens' = [tokens EXCEPT !.call =
               [@ EXCEPT !.pc = "done", !.read_failed = ~readable,
                         !.result = TokenResponse(IF readable THEN tokens.secret
                                                  ELSE NoToken)]]
    /\ UNCHANGED <<render_vars, push_vars, listing, branch>>

NextToken ==
    \/ Arrive
    \/ github_authenticate
    \/ github_save_token
    \/ github_get_saved_token

-----------------------------------------------------------------------------
(* Branch creation (DB_branch_apis) *)

MaxNameLen == 3     \* longest branch name of a request

Letters == {"a"}
Digits == {"0"}
Whitespace == {" ", "\t"}
BranchAlphabet == Letters \cup Digits \cup Whitespace \cup {"-", "_", "/"}

\* str.strip()
RECURSIVE strip(_)
strip(name) ==
    IF name = <<>> THEN <<>>
    ELSE IF Head(name) \in Whitespace THEN strip(Tail(name))
    ELSE IF name[Len(name)] \in Whitespace THEN strip(SubSeq(name, 1, Len(name) - 1))
    ELSE name

\* the class [a-zA-Z0-9-_]
Allowed(c) == c \in Letters \cup Digits \cup {"-", "_"}

sanitize_branch_name(name) ==
    LET stripped == strip(name)
        hyphened == [j \in 1..Len(stripped) |->
                        IF stripped[j] = " " THEN "-" ELSE stripped[j]]
    IN  SelectSeq(hyphened, Allowed)

CreateBranchResponse(success, message) ==
    [kind |-> "CreateBranchResponse", success |-> success, message |-> message]

IdleBranch == [pc |-> "off", branch_name |-> <<>>, log |-> <<>>, result |-> NoResult]

BranchReturn(result, log) ==
    branch' = [branch EXCEPT !.pc = "done", !.log = log, !.result = result]

\* "Get the SHA of the source branch"
GetSourceRef ==
    /\ branch.pc = "source"
    /\ \E resp \in {Answer(200, FALSE), Answer(404, TRUE)} \cup Failures :
           LET log == Append(branch.log, [req |-> "GET git/refs/heads", ref |-> <<>>,
                                          status |-> resp.status])
           IN  IF resp.status = 0
               THEN BranchReturn(CreateBranchResponse(FALSE, <<"str(e)">>), log)
               ELSE IF resp.status # 200
               THEN BranchReturn(CreateBranchResponse(FALSE,
                                     <<"Source branch not found">>), log)
               ELSE branch' = [branch EXCEPT !.pc = "create", !.log = log]
    /\ UNCHANGED <<render_vars, push_vars, listing, tokens>>

\* "Sanitize branch name", "Create new branch"
CreateBranchRef ==
    /\ branch.pc = "create"
    /\ LET sanitized_branch_name == sanitize_branch_name(branch.branch_name)
       IN  IF sanitized_branch_name = <<>>
           THEN BranchReturn(CreateBranchResponse(FALSE, <<"Invalid branch name">>),
                             branch.log)
           ELSE \E resp \in {Answer(201, FALSE), Answer(422, TRUE)} \cup Failures :
                    LET log == Append(branch.log,
                                   [req |-> "POST git/refs", ref |-> sanitized_branch_name,
                                    status |-> resp.status])
                    IN  IF resp.status = 0
                        THEN BranchReturn(CreateBranchResponse(FALSE, <<"str(e)">>), log)
                        ELSE IF resp.status = 201
                        THEN BranchReturn(CreateBranchResponse(TRUE,
                                 <<"Branch", branch.branch_name, "created successfully">>),
                                 log)
                        ELSE BranchReturn(CreateBranchResponse(FALSE,
                                 <<IF resp.message THEN "remote message"
                                   ELSE "Failed to create branch">>), log)
    /\ UNCHANGED <<render_vars, push_vars, listing, tokens>>

branch_create_branch ==
    \/ GetSourceRef
    \/ CreateBranchRef

ApisOff ==
    /\ listing = IdleListing
    /\ tokens = TokensOff
    /\ branch = IdleBranch

-----------------------------------------------------------------------------
(* Specifications *)

InitRender(reqs, active) ==
    /\ \E f \in [active -> reqs] :
           body = [p \in Calls |-> IF p \in active THEN f[p] ELSE IdleRequest]
    /\ pc = [p \in Calls |-> IF p \in active THEN "request" ELSE "off"]
    /\ text1 = [p \in Calls |-> <<>>]
    /\ text2 = [p \in Calls |-> <<>>]
    /\ diffs = [p \in Calls |-> <<>>]
    /\ op_pos = [p \in Calls |-> 1]
    /\ line_pos = [p \in Calls |-> 1]
    /\ html_lines = [p \in Calls |-> <<>>]
    /\ line_number_left = [p \in Calls |-> 1]
    /\ line_number_right = [p \in Calls |-> 1]
    /\ response = [p \in Calls |-> NoResponse]
    /\ PushOff
    /\ ApisOff

RequestsOver(T) ==
    {[workspace_content |-> w, repo_content |-> r, filename |-> Str(<<"a">>)] :
        w \in Fields(T), r \in Fields(T)}

NextRender ==
    \E p \in Calls :
        \/ Reject(p)
        \/ diff_get_diff(p)
        \/ create_diff_html(p)
        \/ EmitEqual(p)
        \/ EmitDeletion(p)
        \/ EmitAddition(p)
        \/ Return(p)

\* one call, texts over Alphabet
Init == InitRender(RequestsOver(TextsUpTo(Alphabet, MaxLen)), {1})
Spec == Init /\ [][NextRender]_vars

\* one call, texts with markup characters: a text against itself, against the
\* empty text, and the empty text against it
EscRequests ==
    LET T == TextsUpTo(EscAlphabet, MaxEscLen)
        Req(w, r) == [workspace_content |-> w, repo_content |-> r,
                      filename |-> Str(<<"a">>)]
    IN  {Req(Str(t), Str(t)) : t \in T} \cup {Req(Str(t), Str(<<>>)) : t \in T}
        \cup {Req(Str(<<>>), Str(t)) : t \in T} \cup {Req(Null, Str(<<>>))}

InitEsc == InitRender(EscRequests, {1})
SpecEsc == InitEsc /\ [][NextRender]_vars

\* two calls running interleaved
CallRequests ==
    LET F == {Str(t) : t \in TextsUpTo(CallAlphabet, MaxCallLen)} \cup {Null}
    IN  {[workspace_content |-> w, repo_content |-> r, filename |-> Str(<<"a">>)] :
            w \in F, r \in F}

InitCalls == InitRender(CallRequests, Calls)
SpecCalls == InitCalls /\ [][NextRender]_vars

InitPush(active, lists) ==
    /\ remote \in {EmptyRemote, OneCommit(TRUE), OneCommit(FALSE)}
    /\ \E f \in [active -> lists] :
           push = [q \in Pushers |->
                      IF q \in active
                      THEN [IdlePush EXCEPT !.pc = "validate_repo_access", !.files = f[q],
                                            !.head_before = remote.ref]
                      ELSE IdlePush]
    /\ requests = [q \in Pushers |-> <<>>]
    /\ body = [p \in Calls |-> IdleRequest]
    /\ pc = [p \in Calls |-> "off"]
    /\ text1 = [p \in Calls |-> <<>>]
    /\ text2 = [p \in Calls |-> <<>>]
    /\ diffs = [p \in Calls |-> <<>>]
    /\ op_pos = [p \in Calls |-> 1]
    /\ line_pos = [p \in Calls |-> 1]
    /\ html_lines = [p \in Calls |-> <<>>]
    /\ line_number_left = [p \in Calls |-> 1]
    /\ line_number_right = [p \in Calls |-> 1]
    /\ response = [p \in Calls |-> NoResponse]
    /\ ApisOff

\* one push against the remote host
SpecPush == InitPush({1}, FileLists) /\ [][NextPush]_vars

\* two pushes of one file each against the same branch, their requests interleaved
InitPush2 == InitPush(Pushers, {<<f>> : f \in FileNames})
SpecPush2 == InitPush2 /\ [][NextPush]_vars

OthersOff ==
    /\ body = [p \in Calls |-> IdleRequest]
    /\ pc = [p \in Calls |-> "off"]
    /\ text1 = [p \in Calls |-> <<>>]
    /\ text2 = [p \in Calls |-> <<>>]
    /\ diffs = [p \in Calls |-> <<>>]
    /\ op_pos = [p \in Calls |-> 1]
    /\ line_pos = [p \in Calls |-> 1]
    /\ html_lines = [p \in Calls |-> <<>>]
    /\ line_number_left = [p \in Calls |-> 1]
    /\ line_number_right = [p \in Calls |-> 1]
    /\ response = [p \in Calls |-> NoResponse]
    /\ PushOff

\* one call of /repo-files
InitFiles ==
    /\ OthersOff
    /\ \E valid \in BOOLEAN : \E repo \in {"empty", "no branch", "files"} :
           listing = [IdleListing EXCEPT !.pc = "input", !.valid = valid, !.repo = repo]
    /\ tokens = TokensOff
    /\ branch = IdleBranch
SpecFiles == InitFiles /\ [][github_get_repo_files]_vars

\* calls of the token endpoints, one after the other; a token may be stored already
InitToken ==
    /\ OthersOff
    /\ listing = IdleListing
    /\ \E t \in Tokens \cup {NoToken} :
           tokens = [TokensOff EXCEPT !.secret = t, !.call.before = t]
    /\ branch = IdleBranch
SpecToken == InitToken /\ [][NextToken]_vars

\* one call of /create-branch
InitBranch ==
    /\ OthersOff
    /\ listing = IdleListing
    /\ tokens = TokensOff
    /\ \E name \in TextsUpTo(BranchAlphabet, MaxNameLen) :
           branch = [IdleBranch EXCEPT !.pc = "source", !.branch_name = name]
SpecBranch == InitBranch /\ [][branch_create_branch]_vars

-----------------------------------------------------------------------------
(* Properties of the diff renderer *)

Rendered(p) == pc[p] \in {"loop", "done"} /\ (pc[p] = "done" => response[p].status = 200)
Finished(p) == pc[p] = "done" /\ response[p].status = 200

\* operation j of the script has been walked to its end
OpDone(p, j) == Finished(p) \/ (pc[p] = "loop" /\ op_pos[p] > j)

Payload(p, r) == diffs[p][r.op].text
Fragment(p, r) == split(Payload(p, r))[r.frag]
IsLast(p, r) == r.frag = Len(split(Payload(p, r)))

LeftRecs(p) == SelectSeq(html_lines[p], LAMBDA r : r.left # NoNumber)
RightRecs(p) == SelectSeq(html_lines[p], LAMBDA r : r.right # NoNumber)

RecordsOf(p, j) == {n \in 1..Len(html_lines[p]) : html_lines[p][n].op = j}

\* C1 (as claimed): an operation whose payload ends in a line break yields exactly
\* one record per line break in it: no record for the empty final fragment.
C1_NoPhantomTrailingLine ==
    \A p \in Calls : \A j \in 1..Len(diffs[p]) :
        (OpDone(p, j) /\ EndsWithNL(diffs[p][j].text))
            => Cardinality(RecordsOf(p, j)) = CountNL(diffs[p][j].text)

\* C2 (as claimed): in every prefix of the record sequence the k-th record with a
\* left number shows k, and the k-th record with a right number shows k.
C2_CounterInvariant ==
    \A p \in Calls :
        /\ \A n \in 1..Len(LeftRecs(p)) : LeftRecs(p)[n].left = n
        /\ \A n \in 1..Len(RightRecs(p)) : RightRecs(p)[n].right = n

\* a record after which the line goes on: the last fragment of a payload that does
\* not end in a line break
LineOpen(p, r) == IsLast(p, r) /\ ~EndsWithNL(Payload(p, r))

\* C2 (amended): on each side the numbers start at 1 and never decrease or skip;
\* a record repeats the number of the previous record of its side exactly when
\* that record left its line open, and shows one more otherwise.
C2_CountersStepwise ==
    \A p \in Calls :
        LET L == LeftRecs(p)
            R == RightRecs(p)
        IN  /\ Len(L) > 0 => L[1].left = 1
            /\ Len(R) > 0 => R[1].right = 1
            /\ \A n \in 1..(Len(L) - 1) :
                   L[n + 1].left = L[n].left + (IF LineOpen(p, L[n]) THEN 0 ELSE 1)
            /\ \A n \in 1..(Len(R) - 1) :
                   R[n + 1].right = R[n].right + (IF LineOpen(p, R[n]) THEN 0 ELSE 1)

\* C2 witness: a finished render in which two records share a left number
C2_Witness ==
    \E p \in Calls :
        /\ Finished(p)
        /\ \E n \in 1..(Len(LeftRecs(p)) - 1) :
               LeftRecs(p)[n + 1].left = LeftRecs(p)[n].left

\* html.unescape restricted to the three entities escape_html writes
RECURSIVE unescape(_)
unescape(s) ==
    IF s = <<>> THEN <<>>
    ELSE IF Len(s) >= 5 /\ SubSeq(s, 1, 5) = amp
         THEN <<"&">> \o unescape(SubSeq(s, 6, Len(s)))
    ELSE IF Len(s) >= 4 /\ SubSeq(s, 1, 4) = lt
         THEN <<"<">> \o unescape(SubSeq(s, 5, Len(s)))
    ELSE IF Len(s) >= 4 /\ SubSeq(s, 1, 4) = gt
         THEN <<">">> \o unescape(SubSeq(s, 5, Len(s)))
    ELSE <<Head(s)>> \o unescape(Tail(s))

\* the unescaped contents in order, a line break restored after every fragment
\* that was followed by one in its payload
RECURSIVE Rebuild(_, _)
Rebuild(p, recs) ==
    IF recs = <<>> THEN <<>>
    ELSE unescape(Head(recs).content)
         \o (IF IsLast(p, Head(recs)) THEN <<>> ELSE <<NL>>)
         \o Rebuild(p, Tail(recs))

\* C3: the unescaped contents of the records with a left number, in order, with
\* the line breaks restored, spell the left text; those with a right number spell
\* the right text.
C3_Reconstruction ==
    \A p \in Calls :
        Finished(p) => /\ Rebuild(p, LeftRecs(p)) = text1[p]
                       /\ Rebuild(p, RightRecs(p)) = text2[p]

\* C3 witness: a finished render of a script with a deletion and an insertion over
\* texts of more than one line
C3_Witness ==
    \E p \in Calls :
        /\ Finished(p)
        /\ CountNL(text1[p]) > 0 /\ CountNL(text2[p]) > 0
        /\ \E j, h \in 1..Len(diffs[p]) :
               diffs[p][j].op = DELETE /\ diffs[p][h].op = INSERT

Lines(t) == t = <<>> \/ EndsWithNL(t)

\* C4 (as claimed): an empty right text and a left text of n lines, each ended by a
\* line break, give exactly n records, all deletions numbered 1..n on the left and
\* blank on the right; symmetrically for an empty left text.
C4_OneSided ==
    \A p \in Calls :
        /\ (Finished(p) /\ text2[p] = <<>> /\ Lines(text1[p])) =>
               /\ Len(html_lines[p]) = CountNL(text1[p])
               /\ \A n \in 1..Len(html_lines[p]) :
                      /\ html_lines[p][n].cls = "diff-deletion"
                      /\ html_lines[p][n].left = n
                      /\ html_lines[p][n].right = NoNumber
        /\ (Finished(p) /\ text1[p] = <<>> /\ Lines(text2[p])) =>
               /\ Len(html_lines[p]) = CountNL(text2[p])
               /\ \A n \in 1..Len(html_lines[p]) :
                      /\ html_lines[p][n].cls = "diff-addition"
                      /\ html_lines[p][n].right = n
                      /\ html_lines[p][n].left = NoNumber

\* C5: a text rendered against itself gives only Equal records, each with its left
\* number equal to its right number.
C5_PureEquality ==
    \A p \in Calls :
        (Rendered(p) /\ text1[p] = text2[p]) =>
            \A n \in 1..Len(html_lines[p]) :
                /\ html_lines[p][n].cls = "diff-equal"
                /\ html_lines[p][n].left = html_lines[p][n].right
                /\ html_lines[p][n].left # NoNumber

\* C5 witness: a text of several lines rendered against itself
C5_Witness ==
    \E p \in Calls :
        Finished(p) /\ text1[p] = text2[p] /\ Len(html_lines[p]) >= 3

\* the escaped form of one character
Entity(c) == IF c = "&" THEN amp ELSE IF c = "<" THEN lt
             ELSE IF c = ">" THEN gt ELSE <<c>>

RECURSIVE Escaped(_)
Escaped(t) == IF t = <<>> THEN <<>> ELSE Entity(Head(t)) \o Escaped(Tail(t))

StartsEntity(s, j) ==
    \E e \in {amp, lt, gt} : j + Len(e) - 1 <= Len(s) /\ SubSeq(s, j, j + Len(e) - 1) = e

\* C6: the content of every record is the escaped form of its fragment: no raw
\* '<' or '>', every '&' begins &amp; &lt; or &gt;, and unescaping gives the
\* fragment back.
C6_Escaping ==
    \A p \in Calls : \A n \in 1..Len(html_lines[p]) :
        LET r == html_lines[p][n]
            c == r.content
        IN  /\ c = Escaped(Fragment(p, r))
            /\ \A j \in 1..Len(c) : c[j] \notin {"<", ">"}
            /\ \A j \in 1..Len(c) : c[j] = "&" => StartsEntity(c, j)
            /\ unescape(c) = Fragment(p, r)

\* C6 witness: a fragment "&lt;" was rendered as "&amp;lt;"
C6_Witness ==
    \E p \in Calls :
        /\ Finished(p)
        /\ \E n \in 1..Len(html_lines[p]) :
               /\ Fragment(p, html_lines[p][n]) = <<"&", "l", "t", ";">>
               /\ html_lines[p][n].content = <<"&", "a", "m", "p", ";", "l", "t", ";">>

Effective(f) == IF f.kind = "str" THEN f.value ELSE <<>>

\* C7 (as claimed): the diff operation never ends in an error: a request with a
\* null or missing content is answered like one with an empty text, and two empty
\* texts give an empty record sequence.
C7_Totality ==
    \A p \in Calls :
        pc[p] = "done" =>
            /\ response[p].status = 200
            /\ (Effective(body[p].repo_content) = <<>>
                /\ Effective(body[p].workspace_content) = <<>>)
                   => response[p].diff_html = <<>>

\* the records create_diff_html gives for a script when it runs alone
RECURSIVE RenderAlone(_, _, _, _, _)
RenderAlone(script, k, i, l, r) ==
    IF k > Len(script) THEN <<>>
    ELSE LET text == script[k].text
             lines == split(text)
             adv == advance(i, lines, text)
             kind == script[k].op
             rec == IF kind = EQUAL THEN Record(l, r, "diff-equal", lines[i], k, i)
                    ELSE IF kind = DELETE THEN DeletionRecord(l, lines[i], k, i)
                    ELSE Record(NoNumber, r, "diff-addition", lines[i], k, i)
             l2 == IF kind # INSERT /\ adv THEN l + 1 ELSE l
             r2 == IF kind = EQUAL THEN right_after_equal(r, i, lines, text)
                   ELSE IF kind = INSERT /\ adv THEN r + 1 ELSE r
         IN  <<rec>> \o (IF i < Len(lines)
                         THEN RenderAlone(script, k, i + 1, l2, r2)
                         ELSE RenderAlone(script, k + 1, 1, l2, r2))

IsPrefix(s, t) == Len(s) <= Len(t) /\ SubSeq(t, 1, Len(s)) = s

\* C8: whatever the other call does, a call's records are those its own edit
\* script gives when rendered alone, and the script is one of its own two texts.
C8_CallIsolation ==
    \A p \in Calls :
        /\ Rendered(p) =>
               /\ text1[p] = body[p].repo_content.value
               /\ text2[p] = body[p].workspace_content.value
               /\ diffs[p] \in diff_main(text1[p], text2[p])
               /\ IsPrefix(html_lines[p], RenderAlone(diffs[p], 1, 1, 1, 1))
        /\ Finished(p) => response[p].diff_html = RenderAlone(diffs[p], 1, 1, 1, 1)

\* C8 witness: both calls finished, each with records of its own
C8_Witness ==
    /\ \A p \in Calls : Finished(p) /\ Len(html_lines[p]) >= 2
    /\ html_lines[1] # html_lines[2]

\* line breaks of the payloads before operation j that belong to one side
RECURSIVE BreaksBefore(_, _, _)
BreaksBefore(script, j, other) ==
    IF j <= 1 THEN 0
    ELSE BreaksBefore(script, j - 1, other)
         + (IF script[j - 1].op = other THEN 0 ELSE CountNL(script[j - 1].text))

\* the 1-based index, in one side's text, of the line a record's fragment is on
LineIndex(p, r, other) == 1 + BreaksBefore(diffs[p], r.op, other) + (r.frag - 1)

\* C12 (as claimed): the counters count real lines: between two operations each
\* counter stands at one more than the line breaks of its side's payloads so far,
\* and every record shows the index of the physical line its fragment is on.
C12_CountersCountLines ==
    \A p \in Calls :
        /\ (pc[p] = "loop" /\ line_pos[p] = 1) =>
               /\ line_number_left[p] = 1 + BreaksBefore(diffs[p], op_pos[p], INSERT)
               /\ line_number_right[p] = 1 + BreaksBefore(diffs[p], op_pos[p], DELETE)
        /\ \A n \in 1..Len(html_lines[p]) :
               LET r == html_lines[p][n]
               IN  /\ r.left # NoNumber => r.left = LineIndex(p, r, INSERT)
                   /\ r.right # NoNumber => r.right = LineIndex(p, r, DELETE)

\* C13: a pass of the loop appends one record, made from the operation at hand: a
\* Deletion record shows the left counter and no right number and the right counter
\* stays; an Insertion record shows the right counter and no left number and the
\* left counter stays; an Equal record shows both and both advance together.
C13_PerSideEffect ==
    [][\A p \in Calls :
          html_lines'[p] # html_lines[p] =>
              LET r == html_lines'[p][Len(html_lines'[p])]
                  kind == diffs[p][op_pos[p]].op
                  dl == line_number_left'[p] - line_number_left[p]
                  dr == line_number_right'[p] - line_number_right[p]
              IN  /\ html_lines'[p] = Append(html_lines[p], r)
                  /\ r.op = op_pos[p] /\ r.frag = line_pos[p]
                  /\ kind = DELETE =>
                         /\ r.cls = "diff-deletion"
                         /\ r.left = line_number_left[p] /\ r.right = NoNumber
                         /\ dr = 0 /\ dl \in {0, 1}
                  /\ kind = INSERT =>
                         /\ r.cls = "diff-addition"
                         /\ r.right = line_number_right[p] /\ r.left = NoNumber
                         /\ dl = 0 /\ dr \in {0, 1}
                  /\ kind = EQUAL =>
                         /\ r.cls = "diff-equal"
                         /\ r.left = line_number_left[p]
                         /\ r.right = line_number_right[p]
                         /\ dl = dr /\ dl \in {0, 1}]_vars

\* C13 witness: a finished render with a Deletion of several lines next to an
\* Insertion, after an Equal record
C13_Witness ==
    \E p \in Calls :
        /\ Finished(p)
        /\ \E a, b, c \in 1..Len(html_lines[p]) :
               /\ a < b /\ b < c
               /\ html_lines[p][a].cls = "diff-equal"
               /\ html_lines[p][b].cls = "diff-deletion"
               /\ html_lines[p][b].frag > 1
               /\ html_lines[p][c].cls = "diff-addition"

-----------------------------------------------------------------------------
(* Properties of the push endpoint *)

Expected(req) ==
    IF req \in {"PUT contents/README.md", "POST git/blobs", "POST git/trees",
                "POST git/commits", "POST git/refs"}
    THEN 201 ELSE 200

Ok(e) == e.status = Expected(e.req)

\* blobs created among the first j - 1 requests of push q
BlobsBefore(q, j) ==
    Cardinality({c \in 1..(j - 1) :
                    requests[q][c].req = "POST git/blobs" /\ Ok(requests[q][c])})

TreeBefore(q, j) ==
    \E t \in 1..(j - 1) :
        /\ requests[q][t].req = "POST git/trees" /\ Ok(requests[q][t])
        /\ BlobsBefore(q, t) = Len(push[q].files)

CommitBefore(q, j) ==
    \E c \in 1..(j - 1) :
        /\ requests[q][c].req = "POST git/commits" /\ Ok(requests[q][c])
        /\ TreeBefore(q, c)

\* requests that create or move the branch
RefRequests == {"POST git/refs", "PATCH git/refs/heads"}
BranchRequests == RefRequests \cup {"PUT contents/README.md"}

StepsOrdered(q, moving) ==
    \A j \in 1..Len(requests[q]) :
        LET e == requests[q][j]
        IN  /\ e.req \in moving => CommitBefore(q, j)
            /\ e.req = "POST git/commits" => TreeBefore(q, j)
            /\ e.req = "POST git/trees" => BlobsBefore(q, j) = Len(push[q].files)

\* C9 (as claimed): no request that creates or moves the branch is issued before a
\* commit was created, the commit not before the tree, the tree not before a blob
\* for every file of the request.
C9_PushStepOrdering == \A q \in Pushers : StepsOrdered(q, BranchRequests)

\* C9 (amended): the same for the ref requests (POST git/refs, PATCH
\* git/refs/heads); the one request that moves the branch earlier is the PUT of the
\* initial README.md, the third request of a push to a repository that reported
\* size 0, issued before any blob.
C9_RefStepOrdering ==
    \A q \in Pushers :
        /\ StepsOrdered(q, RefRequests)
        /\ \A j \in 1..Len(requests[q]) :
               requests[q][j].req = "PUT contents/README.md" =>
                   /\ j = 3
                   /\ push[q].pc # "done" => push[q].is_empty_repo
                   /\ BlobsBefore(q, j) = 0

Succeeded(q) ==
    push[q].pc = "done" /\ push[q].result.kind = "PushResponse" /\ push[q].result.success

\* C9 witness: a successful push of two files into an empty repository: the README
\* was put first, then the blobs, the tree, the commit and the ref request
C9_Witness ==
    \E q \in Pushers :
        /\ Succeeded(q)
        /\ Len(push[q].files) = 2
        /\ \E j \in 1..Len(requests[q]) :
               requests[q][j].req = "PUT contents/README.md" /\ Ok(requests[q][j])
        /\ requests[q][Len(requests[q])].req \in RefRequests

Failed(q) ==
    /\ push[q].pc = "done"
    /\ \/ push[q].result.kind = "HTTPException"
       \/ push[q].result.kind = "PushResponse" /\ ~push[q].result.success

\* C10 (as claimed): a remote request that fails in transport or returns an
\* unexpected status is the last request of the push, and the push ends there with
\* a failure.
C10_FirstErrorStops ==
    \A q \in Pushers : \A j \in 1..Len(requests[q]) :
        ~Ok(requests[q][j]) => j = Len(requests[q]) /\ Failed(q)

LastRequest(q) == requests[q][Len(requests[q])]

\* C14: a push that returned success=True ended with an accepted ref request (201
\* for the create, 200 for the update) carrying the commit this call created, the
\* branch is on that commit, and the commit's tree was made from one entry per file
\* of the request, in order, each with the file's path and the blob created for it.
C14_SuccessMovedBranch ==
    \A q \in Pushers :
        Succeeded(q) =>
            LET c == push[q].commit_sha
                entries == push[q].new_tree
            IN  /\ LastRequest(q).req \in RefRequests
                /\ Ok(LastRequest(q))
                /\ CommitBefore(q, Len(requests[q]))
                /\ c \in 1..Len(remote.commits) /\ c # push[q].head_before
                /\ remote.ref = c
                /\ Len(entries) = Len(push[q].files)
                /\ BlobsBefore(q, Len(requests[q])) = Len(push[q].files)
                /\ \A j \in 1..Len(entries) :
                       /\ entries[j].path = lstrip(push[q].files[j])
                       /\ entries[j].sha \in 1..remote.blobs
                       /\ entries[j] \in remote.commits[c].tree
                       /\ \A k \in 1..Len(entries) :
                              entries[k].sha = entries[j].sha => k = j
                /\ remote.commits[c].tree = remote.trees[push[q].tree_sha]

\* C14 witness: a successful push of two files onto an existing branch, ended by
\* the PATCH of the ref
C14_Witness ==
    \E q \in Pushers :
        /\ Succeeded(q)
        /\ Len(push[q].files) = 2
        /\ push[q].head_before # 0
        /\ LastRequest(q).req = "PATCH git/refs/heads"
        /\ remote.ref = push[q].commit_sha

\* C18 (as claimed): when a push has reported failure, the branch is where it was
\* when the call started (commits are never changed, so what is reachable from the
\* head is then the same too).
C18_FailureLeavesBranch ==
    \A q \in Pushers : Failed(q) => remote.ref = push[q].head_before

PushedPaths(q) == {push[q].new_tree[j].path : j \in 1..Len(push[q].new_tree)}

\* C19 (as claimed): when a push succeeds by moving a branch that had a head
\* commit at that moment, the new head has that commit as its parent and its tree
\* keeps every entry of that commit's tree whose path is not among the pushed ones.
C19_HistoryPreserved ==
    [][\A q \in Pushers :
           (~Succeeded(q) /\ Succeeded(q)' /\ remote.ref # 0) =>
               LET old == remote.commits[remote.ref]
                   new == remote'.commits[remote'.ref]
               IN  /\ new.parents = <<remote.ref>>
                   /\ \A e \in old.tree :
                          e.path \notin PushedPaths(q) => e \in new.tree]_vars

\* the commits reachable from commit c through parents
RECURSIVE Ancestry(_)
Ancestry(c) ==
    IF c = 0 THEN {}
    ELSE {c} \cup UNION {Ancestry(remote.commits[c].parents[j]) :
                            j \in 1..Len(remote.commits[c].parents)}

\* C20 (as claimed): for two pushes to a branch that existed when both started,
\* once both have returned success the head has both their commits in its ancestry,
\* and no accepted ref request replaces a head by a commit whose parent is an
\* older commit than that head.
C20_NoLostUpdate ==
    [][(\A q \in Pushers : push[q].head_before # 0) =>
           /\ (\A q \in Pushers : Succeeded(q)') =>
                  \A q \in Pushers : push'[q].commit_sha \in Ancestry(remote.ref)'
           /\ \A q \in Pushers :
                  (~Succeeded(q) /\ Succeeded(q)' /\ remote.ref # 0) =>
                      LET parents == remote'.commits[remote'.ref].parents
                      IN  \A j \in 1..Len(parents) :
                              parents[j] \notin Ancestry(remote.ref) \ {remote.ref}]_vars

-----------------------------------------------------------------------------
(* Properties of the repository listing *)

\* the paths of the files under a directory, as a complete walk finds them
RECURSIVE FilesUnder(_)
FilesUnder(dir) ==
    <<Append(dir, "a")>>
    \o (IF Len(dir) < MaxDepth THEN FilesUnder(Append(dir, "d")) ELSE <<>>)
    \o <<Append(dir, "b")>>

\* a directory listing or a branch lookup that answered with another status than
\* 200, or with a body that is not a list
LookupFailed ==
    \E j \in 1..Len(listing.log) :
        /\ listing.log[j].req \in {"GET branches", "GET git/refs/heads", "GET contents"}
        /\ ~listing.log[j].list

Listed == listing.pc = "done" /\ listing.result.kind = "RepoFilesResponse"

\* C11 (as claimed): when a directory listing or the branch lookup of
\* github_get_repo_files did not answer 200 with a list, the endpoint ends with an
\* error; it does not end with a successful response that lacks files of the
\* repository.
C11_EnumerationFailuresSurfaced ==
    /\ (listing.pc = "done" /\ LookupFailed) => listing.result.kind = "HTTPException"
    /\ (Listed /\ LookupFailed /\ listing.repo = "files") =>
           [j \in 1..Len(listing.result.files) |-> listing.result.files[j].path]
               = FilesUnder(<<>>)

-----------------------------------------------------------------------------
(* Properties of the token endpoints *)

SaveDone == tokens.call.endpoint = "save-token" /\ tokens.call.pc = "done"
ReadDone == tokens.call.endpoint = "saved-token" /\ tokens.call.pc = "done"

\* the secret changes only in a save whose user check, for the token saved,
\* answered 200; a save whose check did not answer 200 ends with an error and the
\* secret as it was
OnlyVerifiedStored ==
    /\ tokens.secret # tokens.call.before =>
           /\ SaveDone /\ tokens.call.status = 200
           /\ tokens.secret = tokens.call.token
           /\ tokens.call.result = SaveTokenResponse(TRUE)
    /\ (SaveDone /\ tokens.call.status # 200) =>
           /\ tokens.secret = tokens.call.before
           /\ tokens.call.result.kind = "HTTPException"
    /\ (SaveDone /\ tokens.call.result = SaveTokenResponse(TRUE)) =>
           tokens.secret = tokens.call.token

C16_StatusesReachCaller ==
    /\ (tokens.call.pc = "done" /\ tokens.call.endpoint \in {"auth", "save-token"}
            /\ tokens.call.status \notin {200, 0}) =>
           tokens.call.result = HTTPException(401, "Invalid token")
    /\ (listing.pc = "done" /\ listing.log # <<>> /\ listing.log[1].status = 404) =>
           listing.result = HTTPException(404, "Repository not found")
    /\ \A q \in Pushers :
           (push[q].pc = "done" /\ requests[q] # <<>> /\ requests[q][1].status = 404) =>
               push[q].result = HTTPException(404, "Repository not found")

-----------------------------------------------------------------------------
(* Properties of branch creation *)

Posted == {j \in 1..Len(branch.log) : branch.log[j].req = "POST git/refs"}

\* C17 (as claimed): no ref-creation request carries an empty name or a character
\* outside letters, digits, hyphen and underscore; an empty sanitized name gives
\* success=False and no ref-creation request; sanitizing a sanitized name changes
\* nothing; and the branch the success message names is the branch created.
C17_SanitizedBeforeCreation ==
    LET sanitized == sanitize_branch_name(branch.branch_name)
    IN  /\ \A j \in Posted :
               /\ branch.log[j].ref # <<>>
               /\ \A k \in 1..Len(branch.log[j].ref) : Allowed(branch.log[j].ref[k])
        /\ sanitized = <<>> =>
               /\ Posted = {}
               /\ branch.pc = "done" => ~branch.result.success
        /\ sanitize_branch_name(sanitized) = sanitized
        /\ (branch.pc = "done" /\ branch.result.success) =>
               /\ Posted # {}
               /\ branch.result.message[2] = branch.log[Len(branch.log)].ref

====
